---- MODULE Spec2Model ----
(***************************************************************************)
(* Model of the step lifecycle of the linux executor                       *)
(* (executor/linux/step.go): CreateStep, PlanStep, ExecStep with its log   *)
(* streamer goroutine, and DestroyStep, driven by a build loop.            *)
(*                                                                         *)
(* A log line is the pair <<k, n>>: the k-th line of the tail stream,      *)
(* n bytes long without its newline.  Log data is a sequence of lines,     *)
(* each standing for its bytes followed by "\n".                           *)
(***************************************************************************)
EXTENDS Integers, Sequences, FiniteSets, TLC

\* ---------------------------------------------------------------- bounds
\* longest tail stream, in lines
MaxLines == 3
\* handler calls made when the handlers are called in any order
MaxCalls == 3
\* longest tail stream when the handlers are called in any order
MaxFreeLines == 1

\* ------------------------------------------------------ program constants
\* step.go:190  if logs.Len() > 1000
FlushThreshold == 1000
\* bufio.MaxScanTokenSize, the limit of the bufio.Scanner of step.go:182
MaxScanTokenSize == 65536

\* the steps of the pipeline, in declaration order
Steps == <<"init", "build">>
Ctns == {Steps[i] : i \in 1..Len(Steps)}

\* line lengths the container may emit (without the newline)
LineLens == {0, 499, 1000, MaxScanTokenSize}
\* exit codes InspectContainer may record
ExitCodes == {0, 7}

WellKnownEnv == {"BUILD_HOST", "VELA_HOST", "VELA_VERSION", "VELA_RUNTIME", "VELA_DISTRIBUTION"}
SecretEnv == {"SECRET"}

VARIABLES
    detach,     \* ctn.Detach
    env,        \* names present in ctn.Environment
    trace,      \* per container: the calls completed for it, in order
    exitCode,   \* ctn.ExitCode
    steps,      \* c.steps: status of the stored step record, "none" if absent
    stepLogs,   \* c.stepLogs: [present, data]
    ret,        \* last return value of each handler, per container
    epc,        \* position of ExecStep: "idle", "wait", "returned"
    spc,        \* position of the streamer goroutine
    stream,     \* lines of the tail stream of the container
    pos,        \* lines of the stream consumed by the scanner
    logs,       \* the goroutine's buffer `logs`
    l,          \* data of the goroutine's log record `l`
    uploads,    \* Log.UpdateStep calls issued, in order
    server,     \* log data persisted at the server
    serr,       \* value returned by the goroutine's func
    dpc,        \* phase of the build loop
    idx,        \* index of the step the build loop is at
    cancelled,  \* the build context was cancelled
    stepUploads,\* Step.Update calls made, in order: the record sent and the outcome
    stepRec,    \* the record of c.steps as Step.Update returned it
    calls       \* handler calls made so far

hvars == <<env, trace, exitCode, steps, stepLogs, ret, epc, spc, stream, pos,
           logs, l, uploads, server, serr, stepUploads, stepRec>>
dvars == <<dpc, idx, cancelled>>
vars == <<detach, env, trace, exitCode, steps, stepLogs, ret, epc, spc, stream,
          pos, logs, l, uploads, server, serr, dpc, idx, cancelled,
          stepUploads, stepRec, calls>>

\* ---------------------------------------------------------------- helpers
RECURSIVE Bytes(_)
\* number of bytes of a sequence of lines, newlines included
Bytes(d) == IF d = <<>> THEN 0 ELSE Head(d)[2] + 1 + Bytes(Tail(d))

IsPrefix(a, b) == Len(a) <= Len(b) /\ SubSeq(b, 1, Len(a)) = a

Call(op, ok) == [op |-> op, ok |-> ok]

Ops(c) == {trace[c][i].op : i \in 1..Len(trace[c])}

Count(c, op) == Cardinality({i \in 1..Len(trace[c]) : trace[c][i].op = op})

\* outcomes of a Runtime call made under the build context
CtxOutcomes == IF cancelled THEN {FALSE} ELSE BOOLEAN

\* all tail streams of at most MaxLines lines
Streams ==
    UNION {{[k \in 1..n |-> <<k, f[k]>>] : f \in [1..n -> LineLens]} : n \in 0..MaxLines}

\* the streams a tail may hold: kept shorter once the handlers are called in
\* any order (calls stays 0 under the build loop)
TailStreams == {s \in Streams : calls = 0 \/ Len(s) <= MaxFreeLines}

\* c.Hostname
Hostname == "worker"

\* step.go:33-38  the values CreateStep gives the well-known entries
WellKnownValue(name) ==
    CASE name = "VELA_RUNTIME"      -> "docker"
      [] name = "VELA_DISTRIBUTION" -> "linux"
      [] name = "VELA_VERSION"      -> "version"
      [] OTHER                      -> Hostname

\* ctn.Environment[name]: the empty string when the entry is missing
EnvValue(c, name) == IF name \in env[c] THEN WellKnownValue(name) ELSE ""

NoRecord == [status |-> "none", host |-> "", runtime |-> "", distribution |-> ""]

Init ==
    /\ detach \in {d \in [Ctns -> BOOLEAN] : d["init"] = FALSE}
    /\ env = [c \in Ctns |-> {}]
    /\ trace = [c \in Ctns |-> <<>>]
    /\ exitCode = [c \in Ctns |-> 0]
    /\ steps = [c \in Ctns |-> "none"]
    /\ stepLogs = [c \in Ctns |-> [present |-> FALSE, data |-> <<>>]]
    /\ ret = [c \in Ctns |-> [create |-> "none", plan |-> "none", exec |-> "none", destroy |-> "none"]]
    /\ epc = [c \in Ctns |-> "idle"]
    /\ spc = [c \in Ctns |-> "none"]
    /\ stream = [c \in Ctns |-> <<>>]
    /\ pos = [c \in Ctns |-> 0]
    /\ logs = [c \in Ctns |-> <<>>]
    /\ l = [c \in Ctns |-> <<>>]
    /\ uploads = [c \in Ctns |-> <<>>]
    /\ server = [c \in Ctns |-> <<>>]
    /\ serr = [c \in Ctns |-> "none"]
    /\ dpc = "create"
    /\ idx = 1
    /\ cancelled = FALSE
    /\ stepUploads = [c \in Ctns |-> <<>>]
    /\ stepRec = [c \in Ctns |-> NoRecord]
    /\ calls = 0

\* ------------------------------------------------------------- CreateStep
\* the secrets injected before the container is set up
CreateCalls_SecretsFirst(o) ==
    CASE o = "SetupErr"  -> <<Call("InjectSecrets", TRUE), Call("SetupContainer", FALSE)>>
      [] o = "SecretErr" -> <<Call("InjectSecrets", FALSE)>>
      [] o = "SubstErr"  -> <<Call("InjectSecrets", TRUE), Call("SetupContainer", TRUE),
                              Call("Substitute", FALSE)>>
      [] OTHER           -> <<Call("InjectSecrets", TRUE), Call("SetupContainer", TRUE),
                              Call("Substitute", TRUE)>>

\* the container removed again when a step after SetupContainer fails
CreateCalls_Cleanup(o) ==
    CASE o = "SetupErr"  -> <<Call("SetupContainer", FALSE)>>
      [] o = "SecretErr" -> <<Call("SetupContainer", TRUE), Call("InjectSecrets", FALSE),
                              Call("RemoveContainer", TRUE)>>
      [] o = "SubstErr"  -> <<Call("SetupContainer", TRUE), Call("InjectSecrets", TRUE),
                              Call("Substitute", FALSE), Call("RemoveContainer", TRUE)>>
      [] OTHER           -> <<Call("SetupContainer", TRUE), Call("InjectSecrets", TRUE),
                              Call("Substitute", TRUE)>>

\* the calls CreateStep makes after the init check, by outcome
CreateCalls(o) ==
    CASE o = "SetupErr"  -> <<Call("SetupContainer", FALSE)>>
      [] o = "SecretErr" -> <<Call("SetupContainer", TRUE), Call("InjectSecrets", FALSE)>>
      [] o = "SubstErr"  -> <<Call("SetupContainer", TRUE), Call("InjectSecrets", TRUE),
                              Call("Substitute", FALSE)>>
      [] OTHER           -> <<Call("SetupContainer", TRUE), Call("InjectSecrets", TRUE),
                              Call("Substitute", TRUE)>>

CreateOutcomes == IF cancelled THEN {"SetupErr"} ELSE {"SetupErr", "SecretErr", "SubstErr", "nil"}

\* the init check left out
IsInit_Never(c) == FALSE

\* ctn.Name == "init"
IsInit(c) == c = "init"

CreateStep(c) ==
    /\ IF IsInit(c)
       THEN /\ env' = [env EXCEPT ![c] = @ \cup WellKnownEnv]
            /\ trace' = [trace EXCEPT ![c] = Append(@, Call("InjectEnv", TRUE))]
            /\ ret' = [ret EXCEPT ![c].create = "nil"]
       ELSE \E o \in CreateOutcomes :
            /\ env' = [env EXCEPT ![c] = @ \cup WellKnownEnv
                                          \cup (IF o \in {"SubstErr", "nil"} THEN SecretEnv ELSE {})]
            /\ trace' = [trace EXCEPT ![c] = Append(@, Call("InjectEnv", TRUE)) \o CreateCalls(o)]
            /\ ret' = [ret EXCEPT ![c].create = o]
    /\ UNCHANGED <<exitCode, steps, stepLogs, epc, spc, stream, pos, logs, l,
                   uploads, server, serr>>
    /\ UNCHANGED <<stepUploads, stepRec>>

\* --------------------------------------------------------------- PlanStep
PlanCalls(o) ==
    CASE o = "StepUpdateErr" -> <<Call("Step.Update", FALSE)>>
      [] o = "GetLogErr" -> <<Call("Step.Update", TRUE), Call("Log.GetStep", FALSE)>>
      [] OTHER           -> <<Call("Step.Update", TRUE), Call("Log.GetStep", TRUE)>>

\* the record sent with the status left as it was first set
StepRecord_Pending(c) ==
    [status |-> "pending", host |-> EnvValue(c, "VELA_HOST"),
     runtime |-> EnvValue(c, "VELA_RUNTIME"), distribution |-> EnvValue(c, "VELA_DISTRIBUTION")]

\* step.go:106-113  the step record PlanStep sends
StepRecord(c) ==
    [status |-> "running", host |-> EnvValue(c, "VELA_HOST"),
     runtime |-> EnvValue(c, "VELA_RUNTIME"), distribution |-> EnvValue(c, "VELA_DISTRIBUTION")]

\* the record stored only once the step log was fetched too
StepStored_AfterLog(o) == o = "nil"

\* step.go:117-125  the record is stored as soon as Step.Update succeeded
StepStored(o) == o # "StepUpdateErr"

\* the record marked Success only when the log was fetched too
StoredStatus_WhenPlanned(o) == IF o = "nil" THEN "success" ELSE "running"

\* step.go:122  s.SetStatus(constants.StatusSuccess)
StoredStatus(o) == "success"

PlanStep(c) ==
    /\ \E o \in {"StepUpdateErr", "GetLogErr", "nil"} :
        /\ trace' = [trace EXCEPT ![c] = @ \o PlanCalls(o)]
        /\ stepUploads' = [stepUploads EXCEPT ![c] =
                              Append(@, [rec |-> StepRecord(c), ok |-> o # "StepUpdateErr"])]
        /\ steps' = IF StepStored(o) THEN [steps EXCEPT ![c] = StoredStatus(o)] ELSE steps
        /\ stepRec' = IF StepStored(o) THEN [stepRec EXCEPT ![c] = StepRecord(c)] ELSE stepRec
        /\ stepLogs' = IF o = "nil"
                       THEN [stepLogs EXCEPT ![c] = [present |-> TRUE, data |-> server[c]]]
                       ELSE stepLogs
        /\ ret' = [ret EXCEPT ![c].plan = o]
    /\ UNCHANGED <<env, exitCode, epc, spc, stream, pos, logs, l, uploads, server, serr>>

\* --------------------------------------------------------------- ExecStep
\* the Detach check left out
WaitsFor_Always(c) == TRUE

\* step.go:223  ExecStep goes on to WaitContainer unless ctn.Detach
WaitsFor(c) == ~detach[c]

\* a non-zero exit code returned as an error
InspectReturn_ExitError(code) == IF code = 0 THEN "nil" ELSE "ContainerFailed"

\* step.go:236-241  what ExecStep returns once InspectContainer succeeded
InspectReturn(code) == "nil"

\* the lookup of the step log left out
LogLoaded_Always(c) == TRUE

\* step.go:151-154  c.stepLogs.Load(ctn.ID)
LogLoaded(c) == stepLogs[c].present

\* ExecStep up to the point where it returns or blocks in WaitContainer
ExecStep(c) ==
    /\ epc[c] = "idle"
    /\ IF IsInit(c)
       THEN /\ ret' = [ret EXCEPT ![c].exec = "nil"]
            /\ epc' = [epc EXCEPT ![c] = "returned"]
            /\ UNCHANGED <<trace, spc, l, logs>>
       ELSE IF ~LogLoaded(c)
       THEN /\ ret' = [ret EXCEPT ![c].exec = "NoLogErr"]
            /\ epc' = [epc EXCEPT ![c] = "returned"]
            /\ UNCHANGED <<trace, spc, l, logs>>
       ELSE \E ok \in CtxOutcomes :
            IF ~ok
            THEN /\ trace' = [trace EXCEPT ![c] = Append(@, Call("RunContainer", FALSE))]
                 /\ ret' = [ret EXCEPT ![c].exec = "RunErr"]
                 /\ epc' = [epc EXCEPT ![c] = "returned"]
                 /\ UNCHANGED <<spc, l, logs>>
            ELSE /\ trace' = [trace EXCEPT ![c] = @ \o <<Call("RunContainer", TRUE), Call("Spawn", TRUE)>>]
                 /\ spc' = [spc EXCEPT ![c] = "spawned"]
                 /\ l' = [l EXCEPT ![c] = stepLogs[c].data]
                 /\ logs' = [logs EXCEPT ![c] = <<>>]
                 /\ IF WaitsFor(c)
                    THEN /\ epc' = [epc EXCEPT ![c] = "wait"]
                         /\ UNCHANGED ret
                    ELSE /\ epc' = [epc EXCEPT ![c] = "returned"]
                         /\ ret' = [ret EXCEPT ![c].exec = "nil"]
    /\ UNCHANGED <<env, exitCode, steps, stepLogs, stream, pos, uploads, server, serr>>
    /\ UNCHANGED <<stepUploads, stepRec>>
\* InspectContainer called even though WaitContainer failed
ExecStep_WaitThenInspect(c) ==
    /\ epc[c] = "wait"
    /\ epc' = [epc EXCEPT ![c] = "returned"]
    /\ \E w \in CtxOutcomes :
        IF ~w
        THEN /\ trace' = [trace EXCEPT ![c] = @ \o <<Call("WaitContainer", FALSE),
                                                    Call("InspectContainer", TRUE)>>]
             /\ ret' = [ret EXCEPT ![c].exec = "WaitErr"]
             /\ UNCHANGED exitCode
        ELSE \E i \in CtxOutcomes :
             IF ~i
             THEN /\ trace' = [trace EXCEPT ![c] = @ \o <<Call("WaitContainer", TRUE),
                                                         Call("InspectContainer", FALSE)>>]
                  /\ ret' = [ret EXCEPT ![c].exec = "InspectErr"]
                  /\ UNCHANGED exitCode
             ELSE \E code \in ExitCodes :
                  /\ trace' = [trace EXCEPT ![c] = @ \o <<Call("WaitContainer", TRUE),
                                                         Call("InspectContainer", TRUE)>>]
                  /\ exitCode' = [exitCode EXCEPT ![c] = code]
                  /\ ret' = [ret EXCEPT ![c].exec = "nil"]
    /\ UNCHANGED <<env, steps, stepLogs, spc, stream, pos, logs, l, uploads, server, serr>>
    /\ UNCHANGED <<stepUploads, stepRec>>

\* WaitContainer returns; ExecStep inspects the container and returns
ExecStep_Wait(c) ==
    /\ epc[c] = "wait"
    /\ epc' = [epc EXCEPT ![c] = "returned"]
    /\ \E w \in CtxOutcomes :
        IF ~w
        THEN /\ trace' = [trace EXCEPT ![c] = Append(@, Call("WaitContainer", FALSE))]
             /\ ret' = [ret EXCEPT ![c].exec = "WaitErr"]
             /\ UNCHANGED exitCode
        ELSE \E i \in CtxOutcomes :
             IF ~i
             THEN /\ trace' = [trace EXCEPT ![c] = @ \o <<Call("WaitContainer", TRUE),
                                                         Call("InspectContainer", FALSE)>>]
                  /\ ret' = [ret EXCEPT ![c].exec = "InspectErr"]
                  /\ UNCHANGED exitCode
             ELSE \E code \in ExitCodes :
                  /\ trace' = [trace EXCEPT ![c] = @ \o <<Call("WaitContainer", TRUE),
                                                         Call("InspectContainer", TRUE)>>]
                  /\ exitCode' = [exitCode EXCEPT ![c] = code]
                  /\ ret' = [ret EXCEPT ![c].exec = InspectReturn(code)]
    /\ UNCHANGED <<env, steps, stepLogs, spc, stream, pos, logs, l, uploads, server, serr>>
    /\ UNCHANGED <<stepUploads, stepRec>>

\* ------------------------------------------------- the streamer goroutine
\* the buffer sent without the data already in the log record
Payload_BufferOnly(rec, buf) == buf

\* step.go:194, 210  l.SetData(append(l.GetData(), logs.Bytes()...))
Payload(rec, buf) == rec \o buf

\* step.go:190  logs.Len() > 1000
ShouldFlush(buf) == Bytes(buf) > FlushThreshold

Upload(data, final) == [data |-> data, final |-> final, res |-> "pending", srv |-> <<>>]

\* the record held by c.stepLogs is the one `l` points to until `l` is
\* reassigned by the first Log.UpdateStep return
SetData(c, data) ==
    IF uploads[c] = <<>>
    THEN stepLogs' = [stepLogs EXCEPT ![c].data = data]
    ELSE UNCHANGED stepLogs

\* the upload started without waiting for it to return
InFlight_Async == "scan"

\* step.go:198  the goroutine is inside Log.UpdateStep until it returns
InFlight == "upload"

\* step.go:175-179  TailContainer
Stream_Tail(c) ==
    /\ spc[c] = "spawned"
    /\ \E ok \in CtxOutcomes :
        IF ok
        THEN /\ \E s \in TailStreams : stream' = [stream EXCEPT ![c] = s]
             /\ trace' = [trace EXCEPT ![c] = Append(@, Call("TailContainer", TRUE))]
             /\ spc' = [spc EXCEPT ![c] = "scan"]
             /\ UNCHANGED serr
        ELSE /\ trace' = [trace EXCEPT ![c] = Append(@, Call("TailContainer", FALSE))]
             /\ spc' = [spc EXCEPT ![c] = "done"]
             /\ serr' = [serr EXCEPT ![c] = "TailErr"]
             /\ UNCHANGED stream
    /\ UNCHANGED <<env, exitCode, steps, stepLogs, ret, epc, pos, logs, l, uploads, server>>
    /\ UNCHANGED <<stepUploads, stepRec>>

\* step.go:185-198 and 207-214  one scanner.Scan(): a line is read and
\* buffered (and the buffer sent if it is large), or the loop ends and the
\* last bytes are sent
Stream_Scan(c) ==
    /\ spc[c] = "scan"
    /\ IF pos[c] < Len(stream[c]) /\ stream[c][pos[c] + 1][2] < MaxScanTokenSize
       THEN LET buf == Append(logs[c], stream[c][pos[c] + 1]) IN
            /\ pos' = [pos EXCEPT ![c] = @ + 1]
            /\ logs' = [logs EXCEPT ![c] = buf]
            /\ IF ShouldFlush(buf)
               THEN /\ l' = [l EXCEPT ![c] = Payload(@, buf)]
                    /\ SetData(c, Payload(l[c], buf))
                    /\ uploads' = [uploads EXCEPT ![c] = Append(@, Upload(Payload(l[c], buf), FALSE))]
                    /\ spc' = [spc EXCEPT ![c] = InFlight]
               ELSE UNCHANGED <<l, stepLogs, uploads, spc>>
       ELSE /\ l' = [l EXCEPT ![c] = Payload(@, logs[c])]
            /\ SetData(c, Payload(l[c], logs[c]))
            /\ uploads' = [uploads EXCEPT ![c] = Append(@, Upload(Payload(l[c], logs[c]), TRUE))]
            /\ spc' = [spc EXCEPT ![c] = "final"]
            /\ UNCHANGED <<pos, logs>>
    /\ UNCHANGED <<env, trace, exitCode, steps, ret, epc, stream, server, serr>>
    /\ UNCHANGED <<stepUploads, stepRec>>

\* the server's side of Log.UpdateStep: the record is persisted and returned
Persist(c, ok) ==
    LET n == Len(uploads[c]) IN
    /\ server' = IF ok THEN [server EXCEPT ![c] = uploads[c][n].data] ELSE server
    /\ uploads' = [uploads EXCEPT ![c][n].res = IF ok THEN "ok" ELSE "err",
                                  ![c][n].srv = server'[c]]

\* step.go:198-204  Log.UpdateStep returns inside the loop
Stream_UpdateReturn(c) ==
    /\ spc[c] = "upload"
    /\ \E ok \in BOOLEAN :
        /\ Persist(c, ok)
        /\ IF ok
           THEN /\ l' = [l EXCEPT ![c] = server'[c]]
                /\ logs' = [logs EXCEPT ![c] = <<>>]
                /\ spc' = [spc EXCEPT ![c] = "scan"]
                /\ UNCHANGED serr
           ELSE /\ spc' = [spc EXCEPT ![c] = "done"]
                /\ serr' = [serr EXCEPT ![c] = "LogUpdateErr"]
                /\ UNCHANGED <<l, logs>>
    /\ UNCHANGED <<env, trace, exitCode, steps, stepLogs, ret, epc, stream, pos>>
    /\ UNCHANGED <<stepUploads, stepRec>>

\* step.go:214-219  the last Log.UpdateStep returns; the goroutine ends
Stream_FinalReturn(c) ==
    /\ spc[c] = "final"
    /\ \E ok \in BOOLEAN :
        /\ Persist(c, ok)
        /\ l' = IF ok THEN [l EXCEPT ![c] = server'[c]] ELSE l
        /\ serr' = [serr EXCEPT ![c] = IF ok THEN "nil" ELSE "LogUpdateErr"]
    /\ spc' = [spc EXCEPT ![c] = "done"]
    /\ UNCHANGED <<env, trace, exitCode, steps, stepLogs, ret, epc, stream, pos, logs>>
    /\ UNCHANGED <<stepUploads, stepRec>>

\* ------------------------------------------------------------ DestroyStep
\* only a container that has a step log is removed
DestroyStep_PlannedOnly(c) ==
    /\ IF IsInit(c) \/ ~stepLogs[c].present
       THEN /\ ret' = [ret EXCEPT ![c].destroy = "nil"]
            /\ UNCHANGED trace
       ELSE \E ok \in BOOLEAN :
            /\ trace' = [trace EXCEPT ![c] = Append(@, Call("RemoveContainer", ok))]
            /\ ret' = [ret EXCEPT ![c].destroy = IF ok THEN "nil" ELSE "RemoveErr"]
    /\ UNCHANGED <<env, exitCode, steps, stepLogs, epc, spc, stream, pos, logs, l,
                   uploads, server, serr>>
    /\ UNCHANGED <<stepUploads, stepRec>>

\* RemoveContainer runs under the context of the teardown, not the build's
DestroyStep(c) ==
    /\ IF IsInit(c)
       THEN /\ ret' = [ret EXCEPT ![c].destroy = "nil"]
            /\ UNCHANGED trace
       ELSE \E ok \in BOOLEAN :
            /\ trace' = [trace EXCEPT ![c] = Append(@, Call("RemoveContainer", ok))]
            /\ ret' = [ret EXCEPT ![c].destroy = IF ok THEN "nil" ELSE "RemoveErr"]
    /\ UNCHANGED <<env, exitCode, steps, stepLogs, epc, spc, stream, pos, logs, l,
                   uploads, server, serr>>
    /\ UNCHANGED <<stepUploads, stepRec>>

\* --------------------------------------------------------- the build loop
\* The loop that calls the four handlers (CreateBuild .. DestroyBuild):
\* every step is created, then each step is planned and executed in order,
\* and the teardown destroys every step on every exit path.
Abort == dpc' = "destroy" /\ idx' = 1

NextStep == IF idx < Len(Steps) THEN dpc' = "plan" /\ idx' = idx + 1 ELSE Abort

Build_CreateStep ==
    /\ dpc = "create"
    /\ CreateStep(Steps[idx])
    /\ IF ret'[Steps[idx]].create # "nil" THEN Abort
       ELSE IF idx < Len(Steps) THEN dpc' = "create" /\ idx' = idx + 1
       ELSE dpc' = "plan" /\ idx' = 1
    /\ UNCHANGED <<detach, cancelled, calls>>

Build_PlanStep ==
    /\ dpc = "plan"
    /\ PlanStep(Steps[idx])
    /\ IF ret'[Steps[idx]].plan # "nil" THEN Abort ELSE dpc' = "exec" /\ idx' = idx
    /\ UNCHANGED <<detach, cancelled, calls>>

Build_ExecStep ==
    /\ dpc = "exec"
    /\ ExecStep(Steps[idx])
    /\ IF epc'[Steps[idx]] = "wait" THEN dpc' = "wait" /\ idx' = idx
       ELSE IF ret'[Steps[idx]].exec # "nil" THEN Abort
       ELSE NextStep
    /\ UNCHANGED <<detach, cancelled, calls>>

Build_ExecWait ==
    /\ dpc = "wait"
    /\ ExecStep_Wait(Steps[idx])
    /\ IF ret'[Steps[idx]].exec # "nil" THEN Abort ELSE NextStep
    /\ UNCHANGED <<detach, cancelled, calls>>

Build_DestroyStep ==
    /\ dpc = "destroy"
    /\ DestroyStep(Steps[idx])
    /\ IF idx < Len(Steps) THEN dpc' = "destroy" /\ idx' = idx + 1
       ELSE dpc' = "done" /\ idx' = idx
    /\ UNCHANGED <<detach, cancelled, calls>>

\* the build token is cancelled while the build runs
Build_Cancel ==
    /\ dpc \in {"create", "plan", "exec", "wait"}
    /\ ~cancelled
    /\ cancelled' = TRUE
    /\ UNCHANGED <<detach, dpc, idx, calls>>
    /\ UNCHANGED hvars

Streamer ==
    /\ \E c \in Ctns : \/ Stream_Tail(c)
                       \/ Stream_Scan(c)
                       \/ Stream_UpdateReturn(c)
                       \/ Stream_FinalReturn(c)
    /\ UNCHANGED <<detach, dpc, idx, cancelled, calls>>

Build ==
    \/ Build_CreateStep
    \/ Build_PlanStep
    \/ Build_ExecStep
    \/ Build_ExecWait
    \/ Build_DestroyStep

Next == Build \/ Build_Cancel \/ Streamer

Spec == Init /\ [][Next]_vars

\* the executor thread keeps running: a handler that can return does return
FairSpec == Spec /\ WF_vars(Build)

\* the executor thread and the streamer goroutines keep running, and an API
\* call that was started returns
FairStreamSpec == Spec /\ WF_vars(Build) /\ WF_vars(Streamer)

\* ------------------------------------------- the handlers called in any order
\* Any caller of the four handlers: up to MaxCalls calls, on any container and
\* in any order.  ExecStep runs once per container (one streamer each).
Free_CreateStep ==
    /\ calls < MaxCalls
    /\ \E c \in Ctns : CreateStep(c)
    /\ calls' = calls + 1
    /\ UNCHANGED <<detach, dpc, idx, cancelled>>

Free_PlanStep ==
    /\ calls < MaxCalls
    /\ \E c \in Ctns : PlanStep(c)
    /\ calls' = calls + 1
    /\ UNCHANGED <<detach, dpc, idx, cancelled>>

Free_ExecStep ==
    /\ calls < MaxCalls
    /\ \E c \in Ctns : ExecStep(c)
    /\ calls' = calls + 1
    /\ UNCHANGED <<detach, dpc, idx, cancelled>>

Free_ExecWait ==
    /\ \E c \in Ctns : ExecStep_Wait(c)
    /\ UNCHANGED <<detach, dpc, idx, cancelled, calls>>

Free_DestroyStep ==
    /\ calls < MaxCalls
    /\ \E c \in Ctns : DestroyStep(c)
    /\ calls' = calls + 1
    /\ UNCHANGED <<detach, dpc, idx, cancelled>>

FreeNext ==
    \/ Free_CreateStep
    \/ Free_PlanStep
    \/ Free_ExecStep
    \/ Free_ExecWait
    \/ Free_DestroyStep
    \/ Streamer

FreeSpec == Init /\ [][FreeNext]_vars

TypeOK ==
    /\ dpc \in {"create", "plan", "exec", "wait", "destroy", "done"}
    /\ idx \in 1..Len(Steps)
    /\ \A c \in Ctns : /\ epc[c] \in {"idle", "wait", "returned"}
                       /\ spc[c] \in {"none", "spawned", "scan", "upload", "final", "done"}
                       /\ pos[c] \in 0..Len(stream[c])
                       /\ steps[c] \in {"none", "success"}
    /\ calls \in Nat

\* ------------------------------------------------------------ properties
Did(c, op, ok) == \E i \in 1..Len(trace[c]) : trace[c][i] = Call(op, ok)

RuntimeOps == {"SetupContainer", "RunContainer", "TailContainer", "WaitContainer",
               "InspectContainer", "RemoveContainer"}

IsExecOp(e) == e.op \in {"RunContainer", "Spawn", "WaitContainer", "InspectContainer"}

\* what ExecStep did for c, in order
ExecTrace(c) == SelectSeq(trace[c], IsExecOp)

Started == <<Call("RunContainer", TRUE), Call("Spawn", TRUE)>>

Waited == Started \o <<Call("WaitContainer", TRUE), Call("InspectContainer", TRUE)>>

TailOpened(c) == Did(c, "TailContainer", TRUE)

\* line k of the tail stream of c is in the payload of some upload
Uploaded(c, k) ==
    \E i \in 1..Len(uploads[c]) :
        \E j \in 1..Len(uploads[c][i].data) : uploads[c][i].data[j] = stream[c][k]

LastUpload(c) == uploads[c][Len(uploads[c])]

\* C1: every container CreateStep called SetupContainer for has
\* RemoveContainer called at most once at any time, and eventually exactly once
C1_CleanupInvariant ==
    \A c \in Ctns :
        /\ [](Count(c, "RemoveContainer") <= 1)
        /\ ("SetupContainer" \in Ops(c)) ~> (Count(c, "RemoveContainer") = 1)

\* a container that was set up, whose wait was cut by the cancellation of the
\* build, has been removed once
C1_Witness ==
    /\ cancelled
    /\ Did("build", "SetupContainer", TRUE)
    /\ ret["build"].exec = "WaitErr"
    /\ Count("build", "RemoveContainer") = 1

\* C2: ExecStep of a planned non-init container runs RunContainer first and
\* spawns the streamer only after it succeeded; a detached container is never
\* waited for nor inspected; otherwise WaitContainer then InspectContainer are
\* called once each, in that order, before ExecStep returns success
C2_ExecOrder ==
    \A c \in Ctns \ {"init"} :
        /\ ExecTrace(c) \in {<<>>, <<Call("RunContainer", FALSE)>>, Started,
                             Started \o <<Call("WaitContainer", FALSE)>>,
                             Started \o <<Call("WaitContainer", TRUE), Call("InspectContainer", FALSE)>>,
                             Waited}
        /\ spc[c] # "none" => IsPrefix(Started, ExecTrace(c))
        /\ detach[c] => ExecTrace(c) \in {<<>>, <<Call("RunContainer", FALSE)>>, Started}
        /\ (detach[c] /\ IsPrefix(Started, ExecTrace(c))) => ret[c].exec = "nil"
        /\ (~detach[c] /\ ret[c].exec = "nil") => ExecTrace(c) = Waited

\* a detached container was started and ExecStep returned with its streamer alive
C2_Witness ==
    /\ detach["build"]
    /\ ret["build"].exec = "nil"
    /\ ExecTrace("build") = Started
    /\ spc["build"] = "scan"

\* C3: for the init container CreateStep, ExecStep and DestroyStep return
\* success with no Runtime call, no secret injection, no substitution, no
\* streamer and no log upload
C3_InitSkipped ==
    /\ Ops("init") \cap (RuntimeOps \cup {"InjectSecrets", "Substitute", "Spawn"}) = {}
    /\ spc["init"] = "none"
    /\ uploads["init"] = <<>>
    /\ ret["init"].create \in {"none", "nil"}
    /\ ret["init"].exec \in {"none", "nil"}
    /\ ret["init"].destroy \in {"none", "nil"}

\* the three handlers have run for init
C3_Witness ==
    /\ ret["init"].create = "nil"
    /\ ret["init"].exec = "nil"
    /\ ret["init"].destroy = "nil"
    /\ epc["init"] = "returned"

\* C4: once the streamer of a container whose tail was opened has ended,
\* every line of the tail stream is in the payload of some Log.UpdateStep call
C4_AtLeastOnce ==
    \A c \in Ctns :
        (spc[c] = "done" /\ TailOpened(c)) =>
            \A k \in 1..Len(stream[c]) : Uploaded(c, k)

\* C5: of two uploads of one streamer the earlier payload is a prefix of the
\* later payload, and of the data at the server when the later one completes
C5_LogsGrow ==
    \A c \in Ctns :
        \A j \in 1..Len(uploads[c]) :
            \A i \in 1..(j - 1) :
                /\ IsPrefix(uploads[c][i].data, uploads[c][j].data)
                /\ uploads[c][j].res # "pending" => IsPrefix(uploads[c][i].data, uploads[c][j].srv)

\* two uploads completed, the second one larger than the first
C5_Witness ==
    /\ Len(uploads["build"]) = 2
    /\ uploads["build"][2].res = "ok"
    /\ Len(uploads["build"][1].data) < Len(uploads["build"][2].data)

\* the lines the scanner has read so far
LinesRead(c) == SubSeq(stream[c], 1, pos[c])

\* C6: when a line is read it is added to the buffer with its newline and an
\* upload is issued exactly when the buffer then holds more than 1000 bytes,
\* its payload being the log data followed by the whole buffer; the buffer is
\* empty once that upload is over; when the tail closes one final upload is
\* issued with the log data followed by the remaining bytes; and a streamer
\* that ends after an opened tail has issued the final upload, which holds
\* every line read if all uploads succeeded
C6_FlushRule ==
    [][\A c \in Ctns :
        /\ pos'[c] = pos[c] + 1 =>
              /\ logs'[c] = Append(logs[c], stream[c][pos'[c]])
              /\ (Len(uploads'[c]) = Len(uploads[c]) + 1) <=> (Bytes(logs'[c]) > 1000)
              /\ Len(uploads'[c]) = Len(uploads[c]) + 1 =>
                    /\ ~LastUpload(c)'.final
                    /\ LastUpload(c)'.data = l[c] \o logs'[c]
        /\ (spc[c] = "upload" /\ spc'[c] # "upload") => logs'[c] = <<>>
        /\ (spc[c] = "scan" /\ spc'[c] # "scan" /\ pos'[c] = pos[c]) =>
              /\ Len(uploads'[c]) = Len(uploads[c]) + 1
              /\ LastUpload(c)'.final
              /\ LastUpload(c)'.data = l[c] \o logs[c]
        /\ (spc[c] # "done" /\ spc'[c] = "done" /\ TailOpened(c)') =>
              /\ LastUpload(c)'.final
              /\ (\A i \in 1..Len(uploads'[c]) : uploads'[c][i].res = "ok")
                    => LastUpload(c)'.data = LinesRead(c)'
      ]_vars

\* C7: after a failed upload issued while the tail is open the streamer still
\* reads the rest of the stream and ends with the final upload
C7_ContinuesAfterFailure ==
    \A c \in Ctns :
        (/\ spc[c] = "done"
         /\ \E i \in 1..Len(uploads[c]) : ~uploads[c][i].final /\ uploads[c][i].res = "err")
            => /\ LastUpload(c).final
               /\ \/ pos[c] = Len(stream[c])
                  \/ stream[c][pos[c] + 1][2] >= MaxScanTokenSize

\* what the handlers have handed back to the code that called them for c
Reported(c) == {ret[c].create, ret[c].plan, ret[c].exec, ret[c].destroy}

\* C8: a failure of the final upload reaches the caller of ExecStep, once
\* ExecStep and the streamer have both ended, without failing the step
C8_FinalFailureSurfaced ==
    \A c \in Ctns :
        (/\ spc[c] = "done" /\ epc[c] = "returned"
         /\ uploads[c] # <<>> /\ LastUpload(c).final /\ LastUpload(c).res = "err")
            => /\ serr[c] \in Reported(c)
               /\ steps[c] # "failure"

\* C9: when RunContainer, WaitContainer and InspectContainer all succeeded for
\* a non-detached container, ExecStep returns no error, whatever the exit code
C9_ExitCodeNoError ==
    \A c \in Ctns \ {"init"} :
        (~detach[c] /\ ExecTrace(c) = Waited) => (epc[c] = "returned" /\ ret[c].exec = "nil")

\* ExecStep returned for a container that exited with 7
C9_Witness ==
    /\ ~detach["build"]
    /\ ExecTrace("build") = Waited
    /\ exitCode["build"] = 7
    /\ ret["build"].exec = "nil"

\* C10: after ExecStep of a non-detached container returned normally, the
\* step record in the step map is Success for exit code 0, Failure otherwise
C10_StatusFromExitCode ==
    \A c \in Ctns \ {"init"} :
        (~detach[c] /\ epc[c] = "returned" /\ ret[c].exec = "nil")
            => steps[c] = (IF exitCode[c] = 0 THEN "success" ELSE "failure")

\* the moves of a step status the state machine of the step allows
StatusMoves ==
    {<<"none", x>> : x \in {"pending", "running", "success", "failure", "killed", "skipped"}}
        \cup {<<"pending", "running">>, <<"pending", "skipped">>, <<"running", "success">>,
              <<"running", "failure">>, <<"running", "killed">>}

\* C11: whatever handlers are called, in whatever order and with whatever
\* outcomes, the status of the step record of a container only moves along
\* Pending -> Running -> (Success | Failure | Killed), Skipped only from Pending
C11_StatusMonotonic ==
    [][\A c \in Ctns : steps'[c] = steps[c] \/ <<steps[c], steps'[c]>> \in StatusMoves]_vars

\* a step planned twice, with ExecStep in between, still holds its record
C11_Witness ==
    /\ Len(stepUploads["build"]) = 2
    /\ stepUploads["build"][1].ok /\ stepUploads["build"][2].ok
    /\ ret["build"].exec # "none"
    /\ steps["build"] = "success"

\* the step of a PlanStep call on c: the next call of c is Step.Update
PlanStepCall(c) ==
    /\ Len(trace'[c]) > Len(trace[c])
    /\ trace'[c][Len(trace[c]) + 1].op = "Step.Update"

\* C12: a PlanStep call that returns no error uploads exactly one step record,
\* with status Running and the host, runtime and distribution read from the
\* environment of the container, and leaves in the step map the record
\* Step.Update returned and in the step-log map the log Log.GetStep returned
C12_PlanStepStores ==
    [][\A c \in Ctns :
        (PlanStepCall(c) /\ ret'[c].plan = "nil") =>
            LET n == Len(stepUploads[c]) IN
            /\ Len(stepUploads'[c]) = n + 1
            /\ SubSeq(stepUploads'[c], 1, n) = stepUploads[c]
            /\ stepUploads'[c][n + 1].ok
            /\ stepUploads'[c][n + 1].rec =
                   [status |-> "running", host |-> EnvValue(c, "VELA_HOST"),
                    runtime |-> EnvValue(c, "VELA_RUNTIME"),
                    distribution |-> EnvValue(c, "VELA_DISTRIBUTION")]
            /\ steps'[c] # "none"
            /\ stepRec'[c] = stepUploads'[c][n + 1].rec
            /\ stepLogs'[c].present
            /\ stepLogs'[c].data = server[c]]_vars

\* PlanStep returned no error for a container CreateStep prepared
C12_Witness ==
    /\ ret["build"].create = "nil"
    /\ ret["build"].plan = "nil"
    /\ Len(stepUploads["build"]) = 1
    /\ stepUploads["build"][1].rec.host = Hostname
    /\ stepLogs["build"].present

\* C13: DestroyStep returns success on every call on a non-init container,
\* whatever was done to the container before
C13_DestroyAlwaysSucceeds ==
    \A c \in Ctns : ~IsInit(c) => ret[c].destroy \in {"none", "nil"}

\* C14: the log uploads of a container are totally ordered: at most one
\* Log.UpdateStep call is in flight at a time (only the last one issued can be
\* pending), and the payload of each upload starts with the log record the
\* upload before it returned
C14_UploadsOrdered ==
    \A c \in Ctns :
        \A j \in 2..Len(uploads[c]) :
            /\ uploads[c][j - 1].res = "ok"
            /\ IsPrefix(uploads[c][j - 1].srv, uploads[c][j].data)

\* ExecStep is in WaitContainer while the streamer is inside its second upload
C14_Witness ==
    /\ epc["build"] = "wait"
    /\ Len(uploads["build"]) = 2
    /\ uploads["build"][1].res = "ok"
    /\ uploads["build"][2].res = "pending"

\* the state of the streamer goroutine of c
StreamerState(c) == <<spc[c], pos[c], logs[c], l[c], uploads[c], serr[c]>>

\* the return of ExecStep from WaitContainer leaves the streamer as it is
C15_ReturnLeavesStreamer ==
    [][\A c \in Ctns :
        (epc[c] = "wait" /\ epc'[c] = "returned") => StreamerState(c)' = StreamerState(c)]_vars

\* ExecStep has returned while the streamer is inside an upload with lines unread
C15_ReturnedWhilePending ==
    /\ epc["build"] = "returned"
    /\ spc["build"] = "upload"
    /\ pos["build"] < Len(stream["build"])

\* a streamer whose tail was opened ends, its final upload issued
C15_EndsAfterFinalUpload ==
    \A c \in Ctns :
        TailOpened(c) ~> (spc[c] = "done" /\ uploads[c] # <<>> /\ LastUpload(c).final)

\* C15: the streamer runs beside ExecStep and lives as long as the tail:
\* ExecStep returning does not touch the streamer, and a streamer whose tail
\* was opened eventually ends after it issued its final upload
C15_StreamerLifetime == C15_ReturnLeavesStreamer /\ C15_EndsAfterFinalUpload

\* the calls the step from the current state to the next adds to the trace of c
NewCalls(c) == SubSeq(trace'[c], Len(trace[c]) + 1, Len(trace'[c]))

\* the step of a CreateStep call on c: the next call of c is the injection of
\* the well-known environment
CreateStepCall(c) == NewCalls(c) # <<>> /\ NewCalls(c)[1].op = "InjectEnv"

CreateOrder == <<"InjectEnv", "SetupContainer", "InjectSecrets", "Substitute">>

\* C16: CreateStep injects the five well-known entries, then calls
\* SetupContainer, then injects the secrets, then substitutes, in that order;
\* the first of these to fail is the last one performed and CreateStep then
\* returns an error; init stops after the five entries
C16_CreateOrder ==
    [][\A c \in Ctns :
        CreateStepCall(c) =>
            LET new == NewCalls(c) IN
            /\ Len(new) <= Len(CreateOrder)
            /\ \A i \in 1..Len(new) : new[i].op = CreateOrder[i]
            /\ \A i \in 1..(Len(new) - 1) : new[i].ok
            /\ WellKnownEnv \subseteq env'[c]
            /\ (SecretEnv \ env[c]) \cap env'[c] # {} => Call("InjectSecrets", TRUE) \in {new[i] : i \in 1..Len(new)}
            /\ IF IsInit(c)
               THEN Len(new) = 1 /\ ret'[c].create = "nil"
               ELSE /\ Len(new) >= 2
                    /\ ret'[c].create = "nil" <=> (Len(new) = Len(CreateOrder) /\ new[Len(new)].ok)
                    /\ Len(new) < Len(CreateOrder) => ~new[Len(new)].ok]_vars

\* CreateStep stopped at the failed injection of the secrets
C16_Witness ==
    /\ ret["build"].create = "SecretErr"
    /\ trace["build"] = <<Call("InjectEnv", TRUE), Call("SetupContainer", TRUE),
                          Call("InjectSecrets", FALSE)>>
    /\ WellKnownEnv \subseteq env["build"]
    /\ SecretEnv \cap env["build"] = {}

\* C17: CreateStep never removes the container, whichever of its steps
\* failed: a RemoveContainer call is only ever made by a DestroyStep call,
\* alone, and its outcome is what DestroyStep returns
C17_NoCleanupInCreate ==
    [][\A c \in Ctns :
        LET new == NewCalls(c) IN
        (\E i \in 1..Len(new) : new[i].op = "RemoveContainer") =>
            /\ Len(new) = 1
            /\ ret'[c].destroy = IF new[1].ok THEN "nil" ELSE "RemoveErr"
            /\ ret'[c].create = ret[c].create]_vars

\* CreateStep failed after it set the container up, later handlers ran, and
\* the container was not removed since DestroyStep was not called
C17_Witness ==
    /\ ret["build"].create \in {"SecretErr", "SubstErr"}
    /\ Did("build", "SetupContainer", TRUE)
    /\ ret["build"].plan # "none"
    /\ ret["build"].destroy = "none"
    /\ Count("build", "RemoveContainer") = 0

\* C18: an ExecStep call on a non-init container that has no entry in the
\* step-log map returns an error and does nothing else: no runtime call, no
\* streamer, no upload
C18_NoLogNoEffect ==
    [][\A c \in Ctns :
        (epc[c] = "idle" /\ epc'[c] # "idle" /\ ~IsInit(c) /\ ~stepLogs[c].present) =>
            /\ epc'[c] = "returned"
            /\ ret'[c].exec = "NoLogErr"
            /\ trace'[c] = trace[c]
            /\ StreamerState(c)' = StreamerState(c)
            /\ spc'[c] = "none"
            /\ stepLogs'[c] = stepLogs[c]
            /\ server'[c] = server[c]]_vars

\* ExecStep was called after a PlanStep that failed in Log.GetStep
C18_Witness ==
    /\ ret["build"].create = "nil"
    /\ ret["build"].plan = "GetLogErr"
    /\ ret["build"].exec = "NoLogErr"
    /\ ExecTrace("build") = <<>>
    /\ spc["build"] = "none"
    /\ uploads["build"] = <<>>

\* a step of the streamer goroutine of c
StreamerStep(c) ==
    Stream_Tail(c) \/ Stream_Scan(c) \/ Stream_UpdateReturn(c) \/ Stream_FinalReturn(c)

C20_FailedPlanFrame ==
    [][\A c \in Ctns :
        PlanStepCall(c) =>
            /\ ret'[c].plan = "StepUpdateErr" =>
                  /\ NewCalls(c) = <<Call("Step.Update", FALSE)>>
                  /\ steps'[c] = steps[c]
                  /\ stepRec'[c] = stepRec[c]
                  /\ stepLogs'[c] = stepLogs[c]
            /\ ret'[c].plan = "GetLogErr" =>
                  /\ NewCalls(c) = <<Call("Step.Update", TRUE), Call("Log.GetStep", FALSE)>>
                  /\ steps'[c] = "success"
                  /\ stepRec'[c].status = "running"
                  /\ stepLogs'[c] = stepLogs[c]]_vars

\* the only PlanStep call failed in Log.GetStep: a stored record, no step log
C20_Witness ==
    /\ ret["build"].plan = "GetLogErr"
    /\ Len(stepUploads["build"]) = 1
    /\ steps["build"] = "success"
    /\ ~stepLogs["build"].present

====
